---- MODULE Spec2Model ----
(***************************************************************************)
(* Martingale strategy engine of voltex-profits-backend:                   *)
(* src/services/ExchangeService.js, first class body (lines 4-316), the    *)
(* one with the tradingActive flag that src/routes/trading.js drives       *)
(* through a single global instance.                                       *)
(*                                                                         *)
(* The engine is one shared object.  Every async method runs on the        *)
(* single JavaScript thread and gives up control only at an await of a     *)
(* gateway (ccxt) call, so one action of this model is the synchronous     *)
(* run of a method from one await to the next: the call up to its first    *)
(* await, then one action per gateway response.  Several requests          *)
(* (Procs) are in flight at once and interleave at these points.           *)
(*                                                                         *)
(* Numbers are scaled to integers: capitalBase 0.001 is 1 (thousandths),   *)
(* a multiplier 0.25 is 25 (hundredths), so an order size is in units of   *)
(* 1e-5 of the balance unit.  startTime (new Date()) is not modelled:      *)
(* order ids are fresh, so two entries written by two starts differ in     *)
(* orderId.                                                                *)
(***************************************************************************)
EXTENDS Integers, Sequences, FiniteSets, TLC

(* ---- bounds ---------------------------------------------------------- *)

\* number of start (and direct placeMartingaleOrder) calls in one run;
\* connect and stop calls need no bound, they let no counter grow
MaxStarts == 2

\* largest account balance the position sizer is applied to on its own
MaxBalance == 12

\* concurrent requests against the one engine instance
Procs == {1, 2}

Symbols == {"BTC/USDT", "ETH/USDT"}

\* exchange accounts (credentials); Spec connects with the first only
Accounts == {"acctA", "acctB"}

SoloAccounts == {"acctA"}

\* values balance.USDT.total may take (0 is also the `|| 0` fallback)
Balances == {0, 1000}

\* values market.limits.amount.min may take, in 1e-5 units
MinSizes == {30000}

(* ---- catalog --------------------------------------------------------- *)

\* JavaScript undefined / a local not yet assigned
Undefined == 0 - 1

STRATEGIES ==
  [steady_climb |->
     [name |-> "Steady Climb", capitalBase |-> 1, leverage |-> 25,
      martingaleMultipliers |->
        <<25, 27, 36, 47, 63, 83, 108, 143, 188, 247, 325, 430, 568, 751, 993>>,
      maxLevels |-> 15, type |-> "conservative"],
   power_surge |->
     [name |-> "Power Surge", capitalBase |-> 1, leverage |-> 25,
      martingaleMultipliers |->
        <<40, 54, 72, 94, 126, 166, 216, 286, 376, 494, 650, 860, 1136, 1502, 1986>>,
      maxLevels |-> 15, type |-> "aggressive"]]

StrategyNames == DOMAIN STRATEGIES

\* JavaScript NaN: a number times undefined
NaN == 0 - 2

\* a sizer that reads martingaleMultipliers[level], one entry too far
calculatePositionSize_index0(accountBalance, level, strategy) ==
  LET baseAmount == accountBalance * STRATEGIES[strategy].capitalBase
      table == STRATEGIES[strategy].martingaleMultipliers
      multiplier == IF level + 1 \in DOMAIN table THEN table[level + 1]
                    ELSE Undefined
  IN  IF multiplier = Undefined THEN NaN ELSE baseAmount * multiplier

\* level is 1-based; martingaleMultipliers[level - 1] in the 0-based source,
\* undefined past either end of the array
calculatePositionSize(accountBalance, level, strategy) ==
  LET baseAmount == accountBalance * STRATEGIES[strategy].capitalBase
      table == STRATEGIES[strategy].martingaleMultipliers
      multiplier == IF level \in DOMAIN table THEN table[level] ELSE Undefined
  IN  IF multiplier = Undefined THEN NaN ELSE baseAmount * multiplier

\* the catalog of the third class body (lines 447-462): capitalBase 0.1,
\* "0.1% of balance", is 100 thousandths; no type field
STRATEGIES_v3 ==
  [steady_climb |->
     [name |-> "Steady Climb", capitalBase |-> 100, leverage |-> 25,
      martingaleMultipliers |->
        <<25, 27, 36, 47, 63, 83, 108, 143, 188, 247, 325, 430, 568, 751, 993>>,
      maxLevels |-> 15],
   power_surge |->
     [name |-> "Power Surge", capitalBase |-> 100, leverage |-> 25,
      martingaleMultipliers |->
        <<40, 54, 72, 94, 126, 166, 216, 286, 376, 494, 650, 860, 1136, 1502, 1986>>,
      maxLevels |-> 15]]

\* a third-variant sizer that takes capitalBase as a raw fraction
calculatePositionSize_v3_raw(accountBalance, level, strategy) ==
  LET baseAmount == accountBalance * STRATEGIES_v3[strategy].capitalBase
      table == STRATEGIES_v3[strategy].martingaleMultipliers
      multiplier == IF level \in DOMAIN table THEN table[level] ELSE Undefined
  IN  IF multiplier = Undefined THEN NaN ELSE baseAmount * multiplier

\* calculatePositionSize of the third class body (lines 505-509):
\* accountBalance * (capitalBase / 100), then the same table lookup
calculatePositionSize_v3(accountBalance, level, strategy) ==
  LET baseAmount ==
        accountBalance * (STRATEGIES_v3[strategy].capitalBase \div 100)
      table == STRATEGIES_v3[strategy].martingaleMultipliers
      multiplier == IF level \in DOMAIN table THEN table[level] ELSE Undefined
  IN  IF multiplier = Undefined THEN NaN ELSE baseAmount * multiplier

(* ---- state ----------------------------------------------------------- *)

VARIABLES
  exchange,          \* this.exchange: "none" or the account of the session
  isConnected,       \* this.isConnected
  tradingActive,     \* this.tradingActive
  activeStrategies,  \* this.activeStrategies: Map symbol -> state
  proc,              \* per request: position in its method, locals, outcome
  exPositions,       \* exchange side: open quantity per account and symbol,
                     \* above 0 long, below 0 short
  nextOrderId,       \* exchange side: id of the next accepted entry order
  calls              \* number of start and order calls made so far

vars == <<exchange, isConnected, tradingActive, activeStrategies, proc,
          exPositions, nextOrderId, calls>>

NoResult == [success |-> FALSE]

NoError == [kind |-> "none", reason |-> "none"]

\* value of activeStrategies.get(symbol) for a symbol without entry
NoState == [strategy |-> "none", currentLevel |-> 0, orderId |-> 0,
            isActive |-> FALSE]

\* one closePosition call of a stop: st is "none", "lookup" (awaiting
\* fetchPositions([symbol])), "order" (awaiting the reduce-only order),
\* "closed", "noPosition" or "failed"
NoClose == [st |-> "none", size |-> 0, side |-> "none", session |-> "none",
            reduceOnly |-> FALSE]

\* a request slot: pc is the await the request is suspended at, the
\* next fields are the locals of the running method; activeAtCall records
\* whether the symbol had an active state when start was called,
\* rivalReturned whether another start for the symbol has returned since,
\* leverageFailed whether the exchange rejected the call's setLeverage,
\* isTrading the local of that name in the GET /status handler
IdleProc ==
  [pc |-> "idle", op |-> "none", symbol |-> "none", strategy |-> "none",
   level |-> 0, side |-> "none", leverageFailed |-> FALSE,
   accountBalance |-> Undefined, positionSize |-> Undefined,
   minOrderSize |-> Undefined, session |-> "none",
   positions |-> {}, closes |-> [s \in Symbols |-> NoClose],
   sent |-> 0, result |-> NoResult, error |-> NoError,
   activeAtCall |-> FALSE, rivalReturned |-> FALSE, isTrading |-> FALSE]

Init ==
  /\ exchange = "none"
  /\ isConnected = FALSE
  /\ tradingActive = FALSE
  /\ activeStrategies = [s \in {} |-> NoState]
  /\ proc = [p \in Procs |-> IdleProc]
  /\ exPositions = [a \in Accounts |-> [s \in Symbols |-> 0]]
  /\ nextOrderId = 1
  /\ calls = 0

\* activeStrategies.get(symbol) || null
getStrategyStatus(symbol) ==
  IF symbol \in DOMAIN activeStrategies THEN activeStrategies[symbol]
  ELSE NoState

\* activeStrategies.set(symbol, state)
MapSet(map, symbol, state) ==
  [s \in DOMAIN map \cup {symbol} |-> IF s = symbol THEN state ELSE map[s]]

isTrading == tradingActive /\ Cardinality(DOMAIN activeStrategies) > 0

StartPcs == {"start_fetchBalance", "start_setLeverage", "start_loadMarkets",
             "start_createMarketOrder"}

StopOps == {"stopAllStrategies", "emergencyStop"}

Finished(p) == proc[p].pc \in {"returned", "thrown"}

\* every closePosition call request p fanned out has settled
ClosesSettled(p) ==
  \A s \in Symbols : proc[p].closes[s].st \notin {"lookup", "order"}

\* a handler is about to answer: the rest of a route handler after its
\* await of the engine (res.json or the catch) is a microtask, it runs
\* before any gateway response or new request is taken up
Answering == \E q \in Procs : Finished(q) /\ ClosesSettled(q)

\* a new request takes the lowest free slot (slots are interchangeable)
Accept(p, kind) ==
  /\ ~Answering
  /\ proc[p].pc = "idle"
  /\ \A q \in Procs : q < p => proc[q].pc # "idle"
  /\ kind \in {"start", "order"} => calls < MaxStarts
  /\ calls' = IF kind \in {"start", "order"} THEN calls + 1 ELSE calls

\* the frame of a finished call: only its outcome survives
Outcome(pr, pc, result, error) ==
  [IdleProc EXCEPT !.pc = pc, !.op = pr.op, !.symbol = pr.symbol,
     !.strategy = pr.strategy, !.level = pr.level, !.side = pr.side,
     !.leverageFailed = pr.leverageFailed,
     !.result = result, !.error = error,
     !.sent = pr.sent, !.positions = pr.positions, !.closes = pr.closes,
     !.activeAtCall = pr.activeAtCall, !.rivalReturned = pr.rivalReturned]

(* ---- connect --------------------------------------------------------- *)

\* connect up to `await this.exchange.fetchBalance()`: the session object
\* is replaced at once, isConnected keeps its old value
connect(p, acct) ==
  /\ Accept(p, "connect")
  /\ exchange' = acct
  /\ proc' = [proc EXCEPT ![p] =
        [IdleProc EXCEPT !.pc = "connect_fetchBalance", !.op = "connect",
                         !.session = acct]]
  /\ UNCHANGED <<isConnected, tradingActive, activeStrategies, exPositions,
                 nextOrderId>>

\* fetchBalance of connect answered
connect_fetchBalance(p) ==
  /\ ~Answering
  /\ proc[p].pc = "connect_fetchBalance"
  /\ \/ \E b \in Balances :
          /\ isConnected' = TRUE
          /\ proc' = [proc EXCEPT ![p] =
                Outcome(proc[p], "returned",
                        [success |-> TRUE, balance |-> b,
                         exchange |-> proc[p].session], NoError)]
     \/ /\ isConnected' = FALSE
        /\ proc' = [proc EXCEPT ![p] =
              Outcome(proc[p], "thrown", NoResult,
                      [kind |-> "ConnectError",
                       reason |-> "fetchBalance rejected"])]
  /\ UNCHANGED <<exchange, tradingActive, activeStrategies, exPositions,
                 nextOrderId, calls>>

(* ---- balance --------------------------------------------------------- *)

\* new Error('Exchange not connected'), thrown by the guard of
\* getAccountBalance and of getActivePositions
NotConnected == [kind |-> "Error", reason |-> "Exchange not connected"]

\* a getAccountBalance without its guard
getAccountBalance_unguarded(p) ==
  /\ Accept(p, "balance")
  /\ proc' = [proc EXCEPT ![p] =
        [IdleProc EXCEPT !.op = "getAccountBalance",
                         !.pc = "balance_fetchBalance",
                         !.session = exchange]]
  /\ UNCHANGED <<exchange, isConnected, tradingActive, activeStrategies,
                 exPositions, nextOrderId>>

\* getAccountBalance called on the engine, up to
\* `await this.exchange.fetchBalance()`, or thrown by its guard
getAccountBalance(p) ==
  /\ Accept(p, "balance")
  /\ proc' = [proc EXCEPT ![p] =
        LET called == [IdleProc EXCEPT !.op = "getAccountBalance"]
        IN  IF ~isConnected \/ exchange = "none"
            THEN Outcome(called, "thrown", NoResult, NotConnected)
            ELSE [called EXCEPT !.pc = "balance_fetchBalance",
                                !.session = exchange]]
  /\ UNCHANGED <<exchange, isConnected, tradingActive, activeStrategies,
                 exPositions, nextOrderId>>

\* fetchBalance of getAccountBalance answered: balance.USDT?.total || 0 is
\* returned, a rejection becomes 'Failed to fetch account balance'
getAccountBalance_fetchBalance(p) ==
  /\ ~Answering
  /\ proc[p].pc = "balance_fetchBalance"
  /\ \/ \E b \in Balances :
          proc' = [proc EXCEPT ![p] =
            Outcome(proc[p], "returned",
                    [success |-> TRUE, balance |-> b], NoError)]
     \/ proc' = [proc EXCEPT ![p] =
            Outcome(proc[p], "thrown", NoResult,
                    [kind |-> "Error",
                     reason |-> "Failed to fetch account balance"])]
  /\ UNCHANGED <<exchange, isConnected, tradingActive, activeStrategies,
                 exPositions, nextOrderId, calls>>

(* ---- start ----------------------------------------------------------- *)

\* the Error placeMartingaleOrder's catch throws:
\* new Error(`Order Failed: ${error.message}`)
OrderFailed(message) == [kind |-> "OrderFailed", reason |-> message]

\* a catch that has already raised the trading flag
placeMartingaleOrder_catch_flagged(p, error) ==
  /\ proc' = [proc EXCEPT ![p] = Outcome(proc[p], "thrown", NoResult, error)]
  /\ tradingActive' = TRUE
  /\ UNCHANGED <<exchange, isConnected, activeStrategies, exPositions,
                 nextOrderId>>

\* catch of placeMartingaleOrder, rethrown unchanged by the catch of
\* startMartingaleStrategy: nothing but the error is produced
placeMartingaleOrder_catch(p, error) ==
  /\ proc' = [proc EXCEPT ![p] = Outcome(proc[p], "thrown", NoResult, error)]
  /\ UNCHANGED <<exchange, isConnected, tradingActive, activeStrategies,
                 exPositions, nextOrderId>>

\* the request after placeMartingaleOrder -> getAccountBalance has run up
\* to `await this.exchange.fetchBalance()`, or has thrown before it
placeMartingaleOrder_call(called) ==
  IF ~isConnected
  THEN Outcome(called, "thrown", NoResult,
               OrderFailed("Not connected to exchange"))
  ELSE IF exchange = "none"
  THEN Outcome(called, "thrown", NoResult,
               OrderFailed("Exchange not connected"))
  ELSE [called EXCEPT !.pc = "start_fetchBalance", !.session = exchange]

\* startMartingaleStrategy calls placeMartingaleOrder(symbol, strategyType,
\* 1, 'buy')
startMartingaleStrategy(p, symbol, strategyType) ==
  /\ Accept(p, "start")
  /\ proc' = [proc EXCEPT ![p] =
        placeMartingaleOrder_call(
          [IdleProc EXCEPT !.op = "start", !.symbol = symbol,
             !.strategy = strategyType, !.level = 1, !.side = "buy",
             !.activeAtCall = getStrategyStatus(symbol).isActive])]
  /\ UNCHANGED <<exchange, isConnected, tradingActive, activeStrategies,
                 exPositions, nextOrderId>>

\* a placeMartingaleOrder that moves the symbol's state to the level it is
\* about to order
placeMartingaleOrder_advances(p, symbol, strategy, level, side) ==
  /\ Accept(p, "order")
  /\ proc' = [proc EXCEPT ![p] =
        placeMartingaleOrder_call(
          [IdleProc EXCEPT !.op = "order", !.symbol = symbol,
             !.strategy = strategy, !.level = level, !.side = side,
             !.activeAtCall = getStrategyStatus(symbol).isActive])]
  /\ activeStrategies' =
       IF symbol \in DOMAIN activeStrategies
       THEN [activeStrategies EXCEPT ![symbol].currentLevel = level]
       ELSE activeStrategies
  /\ UNCHANGED <<exchange, isConnected, tradingActive, exPositions,
                 nextOrderId>>

\* placeMartingaleOrder called on the engine directly, for any level and
\* side
placeMartingaleOrder(p, symbol, strategy, level, side) ==
  /\ Accept(p, "order")
  /\ proc' = [proc EXCEPT ![p] =
        placeMartingaleOrder_call(
          [IdleProc EXCEPT !.op = "order", !.symbol = symbol,
             !.strategy = strategy, !.level = level, !.side = side,
             !.activeAtCall = getStrategyStatus(symbol).isActive])]
  /\ UNCHANGED <<exchange, isConnected, tradingActive, activeStrategies,
                 exPositions, nextOrderId>>

\* the TypeError of `this.STRATEGIES[strategy].capitalBase` for a name the
\* catalog does not have, as rethrown by the catch of placeMartingaleOrder
UnknownStrategy ==
  OrderFailed("Cannot read properties of undefined (reading 'capitalBase')")

\* a sizing step that lets a name the catalog does not have through, with
\* no size
placeMartingaleOrder_fetchBalance_lenient(p) ==
  /\ ~Answering
  /\ proc[p].pc = "start_fetchBalance"
  /\ \/ \E b \in Balances :
          /\ proc' = [proc EXCEPT ![p].pc = "start_setLeverage",
                        ![p].accountBalance = b,
                        ![p].positionSize =
                           IF proc[p].strategy \in StrategyNames
                           THEN calculatePositionSize(b, proc[p].level,
                                                      proc[p].strategy)
                           ELSE NaN,
                        ![p].session = exchange]
          /\ UNCHANGED <<exchange, isConnected, tradingActive,
                         activeStrategies, exPositions, nextOrderId>>
     \/ placeMartingaleOrder_catch(p,
           OrderFailed("Failed to fetch account balance"))
  /\ UNCHANGED calls

\* fetchBalance answered: compute the size (a TypeError for a name the
\* catalog does not have), then setLeverage up to
\* `await this.exchange.setLeverage(leverage, symbol)`
placeMartingaleOrder_fetchBalance(p) ==
  /\ ~Answering
  /\ proc[p].pc = "start_fetchBalance"
  /\ \/ \E b \in Balances :
          IF proc[p].strategy \notin StrategyNames
          THEN placeMartingaleOrder_catch(p, UnknownStrategy)
          ELSE /\ proc' = [proc EXCEPT ![p].pc = "start_setLeverage",
                             ![p].accountBalance = b,
                             ![p].positionSize =
                                calculatePositionSize(b, proc[p].level,
                                                      proc[p].strategy),
                             ![p].session = exchange]
               /\ UNCHANGED <<exchange, isConnected, tradingActive,
                              activeStrategies, exPositions, nextOrderId>>
     \/ placeMartingaleOrder_catch(p,
           OrderFailed("Failed to fetch account balance"))
  /\ UNCHANGED calls

\* setLeverage answered, either way (its catch only logs); then
\* `await this.exchange.loadMarkets()`
placeMartingaleOrder_setLeverage(p) ==
  /\ ~Answering
  /\ proc[p].pc = "start_setLeverage"
  /\ proc' = [proc EXCEPT ![p].pc = "start_loadMarkets",
                          ![p].session = exchange]
  /\ UNCHANGED <<exchange, isConnected, tradingActive, activeStrategies,
                 exPositions, nextOrderId, calls>>

\* a setLeverage that lets the rejection out of its catch
setLeverage_fatal(p, rejected) ==
  /\ ~Answering
  /\ proc[p].pc = "start_setLeverage"
  /\ IF rejected
     THEN placeMartingaleOrder_catch(
            p, OrderFailed("setLeverage rejected"))
     ELSE /\ proc' = [proc EXCEPT ![p].pc = "start_loadMarkets",
                                  ![p].session = exchange]
          /\ UNCHANGED <<exchange, isConnected, tradingActive,
                         activeStrategies, exPositions, nextOrderId>>
  /\ UNCHANGED calls

\* a placeMartingaleOrder that submits its order before it has the market
\* data
setLeverage_submits(p, rejected) ==
  /\ ~Answering
  /\ proc[p].pc = "start_setLeverage"
  /\ proc' = [proc EXCEPT ![p].pc = "start_loadMarkets",
                          ![p].leverageFailed = rejected,
                          ![p].sent = @ + 1,
                          ![p].session = exchange]
  /\ UNCHANGED <<exchange, isConnected, tradingActive, activeStrategies,
                 exPositions, nextOrderId, calls>>

\* the same step with the exchange's answer to setLeverage kept in
\* leverageFailed, a history of the request the code does not hold
setLeverage(p, rejected) ==
  /\ ~Answering
  /\ proc[p].pc = "start_setLeverage"
  /\ proc' = [proc EXCEPT ![p].pc = "start_loadMarkets",
                          ![p].leverageFailed = rejected,
                          ![p].session = exchange]
  /\ UNCHANGED <<exchange, isConnected, tradingActive, activeStrategies,
                 exPositions, nextOrderId, calls>>

\* the comparison turned around
TooSmall_reversed(positionSize, minOrderSize) ==
  /\ minOrderSize # Undefined
  /\ positionSize # NaN
  /\ positionSize > minOrderSize

\* positionSize < minOrderSize; false when the minimum is undefined or
\* the size is NaN
TooSmall(positionSize, minOrderSize) ==
  /\ minOrderSize # Undefined
  /\ positionSize # NaN
  /\ positionSize < minOrderSize

\* new Error(`Position size ${positionSize} too small. Min: ${minOrderSize}`)
\* as rethrown by the catch of placeMartingaleOrder
PositionTooSmall(positionSize, minOrderSize) ==
  [kind |-> "OrderFailed", reason |-> "Position size too small",
   positionSize |-> positionSize, min |-> minOrderSize]

\* a placeMartingaleOrder that submits the order without the minimum-size
\* check
placeMartingaleOrder_loadMarkets_unchecked(p) ==
  /\ ~Answering
  /\ proc[p].pc = "start_loadMarkets"
  /\ \/ placeMartingaleOrder_catch(p, OrderFailed("loadMarkets rejected"))
     \/ placeMartingaleOrder_catch(p, OrderFailed("market undefined"))
     \/ \E m \in MinSizes \cup {Undefined} :
          /\ proc' = [proc EXCEPT ![p].pc = "start_createMarketOrder",
                        ![p].minOrderSize = m,
                        ![p].sent = @ + 1,
                        ![p].session = exchange]
          /\ UNCHANGED <<exchange, isConnected, tradingActive,
                         activeStrategies, exPositions, nextOrderId>>
  /\ UNCHANGED calls

\* loadMarkets answered: minimum-size check, then the market buy up to
\* `await this.exchange.createMarketOrder(...)`
placeMartingaleOrder_loadMarkets(p) ==
  /\ ~Answering
  /\ proc[p].pc = "start_loadMarkets"
  /\ \/ placeMartingaleOrder_catch(p, OrderFailed("loadMarkets rejected"))
     \/ placeMartingaleOrder_catch(p, OrderFailed("market undefined"))
     \/ \E m \in MinSizes \cup {Undefined} :
          IF TooSmall(proc[p].positionSize, m)
          THEN placeMartingaleOrder_catch(p,
                  PositionTooSmall(proc[p].positionSize, m))
          ELSE /\ proc' = [proc EXCEPT ![p].pc = "start_createMarketOrder",
                             ![p].minOrderSize = m,
                             ![p].sent = @ + 1,
                             ![p].session = exchange]
               /\ UNCHANGED <<exchange, isConnected, tradingActive,
                              activeStrategies, exPositions, nextOrderId>>
  /\ UNCHANGED calls

\* a stored state that keeps the 0-based index of the level
NewStrategyState_level0(strategyType, orderId) ==
  [strategy |-> strategyType, currentLevel |-> 0, orderId |-> orderId,
   isActive |-> TRUE]

\* the state startMartingaleStrategy stores for the symbol
NewStrategyState(strategyType, orderId) ==
  [strategy |-> strategyType, currentLevel |-> 1, orderId |-> orderId,
   isActive |-> TRUE]

\* the result placeMartingaleOrder returns
OrderResult(orderId, symbol, side, positionSize, level, strategy) ==
  [success |-> TRUE, orderId |-> orderId, symbol |-> symbol, side |-> side,
   amount |-> positionSize, level |-> level, strategy |-> strategy]

\* createMarketOrder answered: placeMartingaleOrder returns its result
\* and, under startMartingaleStrategy, the state is stored and tradingActive
\* set.  A buy adds to the position, a sell takes from it; no exchange
\* fills an amount of NaN
placeMartingaleOrder_createMarketOrder(p) ==
  /\ ~Answering
  /\ proc[p].pc = "start_createMarketOrder"
  /\ \/ /\ proc[p].positionSize # NaN
        /\ LET a == proc[p].session
               s == proc[p].symbol
           IN  exPositions' = [exPositions EXCEPT ![a][s] =
                                  IF proc[p].side = "buy"
                                  THEN @ + proc[p].positionSize
                                  ELSE @ - proc[p].positionSize]
        /\ nextOrderId' = nextOrderId + 1
        /\ IF proc[p].op = "start"
           THEN /\ activeStrategies' =
                     MapSet(activeStrategies, proc[p].symbol,
                            NewStrategyState(proc[p].strategy, nextOrderId))
                /\ tradingActive' = TRUE
           ELSE UNCHANGED <<activeStrategies, tradingActive>>
        /\ proc' =
             [q \in Procs |->
                IF q = p
                THEN Outcome(proc[p], "returned",
                             OrderResult(nextOrderId, proc[p].symbol,
                                         proc[p].side, proc[p].positionSize,
                                         proc[p].level, proc[p].strategy),
                             NoError)
                ELSE IF /\ proc[p].op = "start"
                        /\ proc[q].op = "start"
                        /\ proc[q].pc \in StartPcs
                        /\ proc[q].symbol = proc[p].symbol
                THEN [proc[q] EXCEPT !.rivalReturned = TRUE]
                ELSE proc[q]]
        /\ UNCHANGED <<exchange, isConnected>>
     \/ placeMartingaleOrder_catch(p, OrderFailed("createMarketOrder rejected"))
  /\ UNCHANGED calls

(* ---- stop ------------------------------------------------------------ *)

\* the error closePosition rethrows unchanged and Promise.all rejects with
CloseError(symbol, message) ==
  [kind |-> "GatewayError", reason |-> message, symbol |-> symbol]

StopResult(op) ==
  IF op = "emergencyStop"
  THEN [success |-> TRUE, message |-> "Emergency stop completed"]
  ELSE [success |-> TRUE]

ClosedOk(c) == c.st \in {"closed", "noPosition"}

\* a Promise.all whose first rejection also abandons the closePosition
\* calls that have not settled yet
stopAllStrategies_PromiseAll_abort(p, pr) ==
  LET failed == {s \in Symbols : pr.closes[s].st = "failed"}
      kept == [s \in Symbols |->
                 IF pr.closes[s].st \in {"lookup", "order"} THEN NoClose
                 ELSE pr.closes[s]]
  IN  IF pr.pc # "stop_closing"
      THEN /\ proc' = [proc EXCEPT ![p] = pr]
           /\ UNCHANGED <<activeStrategies, tradingActive>>
      ELSE IF failed # {}
      THEN /\ proc' = [proc EXCEPT ![p] =
                 Outcome([pr EXCEPT !.closes = kept], "thrown", NoResult,
                         LET s == CHOOSE s \in failed : TRUE
                         IN  CloseError(s, pr.closes[s].error))]
           /\ UNCHANGED <<activeStrategies, tradingActive>>
      ELSE IF \A s \in pr.positions : ClosedOk(pr.closes[s])
      THEN /\ proc' = [proc EXCEPT ![p] =
                 Outcome(pr, "returned", StopResult(pr.op), NoError)]
           /\ activeStrategies' = [s \in {} |-> NoState]
           /\ tradingActive' = FALSE
      ELSE /\ proc' = [proc EXCEPT ![p] = pr]
           /\ UNCHANGED <<activeStrategies, tradingActive>>

\* a stopAllStrategies that clears the registry and leaves the flag set
stopAllStrategies_PromiseAll_keepsFlag(p, pr) ==
  LET failed == {s \in Symbols : pr.closes[s].st = "failed"}
  IN  IF pr.pc # "stop_closing"
      THEN /\ proc' = [proc EXCEPT ![p] = pr]
           /\ UNCHANGED <<activeStrategies, tradingActive>>
      ELSE IF failed # {}
      THEN /\ proc' = [proc EXCEPT ![p] =
                 Outcome(pr, "thrown", NoResult,
                         LET s == CHOOSE s \in failed : TRUE
                         IN  CloseError(s, pr.closes[s].error))]
           /\ UNCHANGED <<activeStrategies, tradingActive>>
      ELSE IF \A s \in pr.positions : ClosedOk(pr.closes[s])
      THEN /\ proc' = [proc EXCEPT ![p] =
                 Outcome(pr, "returned", StopResult(pr.op), NoError)]
           /\ activeStrategies' = [s \in {} |-> NoState]
           /\ UNCHANGED tradingActive
      ELSE /\ proc' = [proc EXCEPT ![p] = pr]
           /\ UNCHANGED <<activeStrategies, tradingActive>>

\* `await Promise.all(closePromises)` and what follows it, run when a
\* closePosition has settled and left the request as pr: the first
\* rejection throws out of stopAllStrategies, the last fulfilment lets it
\* clear the registry and the flag; the other closePosition calls run on
stopAllStrategies_PromiseAll(p, pr) ==
  LET failed == {s \in Symbols : pr.closes[s].st = "failed"}
  IN  IF pr.pc # "stop_closing"
      THEN /\ proc' = [proc EXCEPT ![p] = pr]
           /\ UNCHANGED <<activeStrategies, tradingActive>>
      ELSE IF failed # {}
      THEN /\ proc' = [proc EXCEPT ![p] =
                 Outcome(pr, "thrown", NoResult,
                         LET s == CHOOSE s \in failed : TRUE
                         IN  CloseError(s, pr.closes[s].error))]
           /\ UNCHANGED <<activeStrategies, tradingActive>>
      ELSE IF \A s \in pr.positions : ClosedOk(pr.closes[s])
      THEN /\ proc' = [proc EXCEPT ![p] =
                 Outcome(pr, "returned", StopResult(pr.op), NoError)]
           /\ activeStrategies' = [s \in {} |-> NoState]
           /\ tradingActive' = FALSE
      ELSE /\ proc' = [proc EXCEPT ![p] = pr]
           /\ UNCHANGED <<activeStrategies, tradingActive>>

\* a getActivePositions that refuses to run with an empty registry
getActivePositions_call_strict(op) ==
  LET called == [IdleProc EXCEPT !.op = op]
  IN  IF ~isConnected \/ exchange = "none"
      THEN Outcome(called, "thrown", NoResult,
                   [kind |-> "Error", reason |-> "Exchange not connected"])
      ELSE IF DOMAIN activeStrategies = {}
      THEN Outcome(called, "thrown", NoResult,
                   [kind |-> "Error", reason |-> "No active strategies"])
      ELSE [called EXCEPT !.pc = "stop_fetchPositions", !.session = exchange]

\* the request after stopAllStrategies -> getActivePositions has run up to
\* `await this.exchange.fetchPositions()`, or has thrown before it
getActivePositions_call(op) ==
  LET called == [IdleProc EXCEPT !.op = op]
  IN  IF ~isConnected \/ exchange = "none"
      THEN Outcome(called, "thrown", NoResult,
                   [kind |-> "Error", reason |-> "Exchange not connected"])
      ELSE [called EXCEPT !.pc = "stop_fetchPositions", !.session = exchange]

\* a stopAllStrategies that empties the registry before it looks at the
\* connection
stopAllStrategies_clearsFirst(p) ==
  /\ Accept(p, "stop")
  /\ proc' = [proc EXCEPT ![p] = getActivePositions_call("stopAllStrategies")]
  /\ activeStrategies' = [s \in {} |-> NoState]
  /\ tradingActive' = FALSE
  /\ UNCHANGED <<exchange, isConnected, exPositions, nextOrderId>>

\* stopAllStrategies up to the await inside getActivePositions
stopAllStrategies(p) ==
  /\ Accept(p, "stop")
  /\ proc' = [proc EXCEPT ![p] = getActivePositions_call("stopAllStrategies")]
  /\ UNCHANGED <<exchange, isConnected, tradingActive, activeStrategies,
                 exPositions, nextOrderId>>

\* an emergencyStop that drops the registry before it closes anything
emergencyStop_clears(p) ==
  /\ Accept(p, "stop")
  /\ proc' = [proc EXCEPT ![p] = getActivePositions_call("emergencyStop")]
  /\ activeStrategies' = [s \in {} |-> NoState]
  /\ tradingActive' = FALSE
  /\ UNCHANGED <<exchange, isConnected, exPositions, nextOrderId>>

\* emergencyStop awaits stopAllStrategies and rethrows what it throws
emergencyStop(p) ==
  /\ Accept(p, "stop")
  /\ proc' = [proc EXCEPT ![p] = getActivePositions_call("emergencyStop")]
  /\ UNCHANGED <<exchange, isConnected, tradingActive, activeStrategies,
                 exPositions, nextOrderId>>

\* positions.filter(position => position.contracts > 0) over the answer of
\* fetchPositions(); [] when the fetch was rejected
getActivePositions(account, fetched) ==
  IF fetched THEN {s \in Symbols : exPositions[account][s] # 0} ELSE {}

\* positions.map(pos => this.closePosition(pos.symbol)): every
\* closePosition runs up to `await this.exchange.fetchPositions([symbol])`
FanOut(positions) ==
  [s \in Symbols |->
     IF s \in positions
     THEN [NoClose EXCEPT !.st = "lookup", !.session = exchange]
     ELSE NoClose]

\* fetchPositions() answered: the closes are fanned out; with no position
\* Promise.all([]) is fulfilled at once
getActivePositions_fetchPositions(p) ==
  /\ ~Answering
  /\ proc[p].pc = "stop_fetchPositions"
  /\ \E fetched \in BOOLEAN :
       LET positions == getActivePositions(proc[p].session, fetched)
       IN  stopAllStrategies_PromiseAll(p,
              [proc[p] EXCEPT !.pc = "stop_closing",
                              !.positions = positions,
                              !.closes = FanOut(positions)])
  /\ UNCHANGED <<exchange, isConnected, exPositions, nextOrderId, calls>>

\* a closing side that follows the position instead of opposing it
closePosition_side_same(open) == IF open > 0 THEN "buy" ELSE "sell"

\* position.side === 'long' ? 'sell' : 'buy', for an open quantity
closePosition_side(open) == IF open > 0 THEN "sell" ELSE "buy"

\* a closePosition that treats a missing position as an error
closePosition_lookup_strict(p, s) ==
  /\ proc[p].closes[s].st = "lookup"
  /\ LET c == proc[p].closes[s]
         open == exPositions[c.session][s]
         size == IF open < 0 THEN 0 - open ELSE open
     IN  \/ stopAllStrategies_PromiseAll(p,
               [proc[p] EXCEPT !.closes[s] =
                  [st |-> "failed", size |-> 0, side |-> "none",
                   session |-> c.session, reduceOnly |-> FALSE,
                   error |-> "fetchPositions rejected"]])
         \/ /\ size > 0
            /\ proc' = [proc EXCEPT ![p].closes[s] =
                  [st |-> "order", size |-> size,
                   side |-> closePosition_side(open),
                   session |-> exchange, reduceOnly |-> TRUE],
                  ![p].sent = @ + 1]
            /\ UNCHANGED <<activeStrategies, tradingActive>>
         \/ /\ size = 0
            /\ stopAllStrategies_PromiseAll(p,
                  [proc[p] EXCEPT !.closes[s] =
                     [st |-> "failed", size |-> 0, side |-> "none",
                      session |-> c.session, reduceOnly |-> FALSE,
                      error |-> "No position to close"]])
  /\ UNCHANGED <<exchange, isConnected, exPositions, nextOrderId, calls>>

\* closePosition from the answer to fetchPositions([symbol]) on: no
\* position is a success without order, a position gets the reduce-only
\* order up to `await this.exchange.createMarketOrder(...)`
closePosition_lookup(p, s) ==
  /\ proc[p].closes[s].st = "lookup"
  /\ LET c == proc[p].closes[s]
         open == exPositions[c.session][s]
         size == IF open < 0 THEN 0 - open ELSE open
     IN  \/ stopAllStrategies_PromiseAll(p,
               [proc[p] EXCEPT !.closes[s] =
                  [st |-> "failed", size |-> 0, side |-> "none",
                   session |-> c.session, reduceOnly |-> FALSE,
                   error |-> "fetchPositions rejected"]])
         \/ /\ size > 0
            /\ proc' = [proc EXCEPT ![p].closes[s] =
                  [st |-> "order", size |-> size,
                   side |-> closePosition_side(open),
                   session |-> exchange, reduceOnly |-> TRUE],
                  ![p].sent = @ + 1]
            /\ UNCHANGED <<activeStrategies, tradingActive>>
         \/ /\ size = 0
            /\ stopAllStrategies_PromiseAll(p,
                  [proc[p] EXCEPT !.closes[s].st = "noPosition"])
  /\ UNCHANGED <<exchange, isConnected, exPositions, nextOrderId, calls>>

\* fetchPositions([symbol]) of one closePosition answered
closePosition_fetchPositions(p, s) ==
  /\ ~Answering
  /\ closePosition_lookup(p, s)

\* what a filled reduce-only order leaves of an open quantity: it only
\* ever brings the position towards zero
ReduceOnly(open, side, size) ==
  IF side = "sell" /\ open > 0 THEN (IF open > size THEN open - size ELSE 0)
  ELSE IF side = "buy" /\ open < 0
  THEN (IF 0 - open > size THEN open + size ELSE 0)
  ELSE open

\* the reduce-only order of one closePosition answered; the id of a close
\* order is stored nowhere, nextOrderId numbers the entry orders only
closePosition_createMarketOrder(p, s) ==
  /\ ~Answering
  /\ proc[p].closes[s].st = "order"
  /\ LET c == proc[p].closes[s]
         open == exPositions[c.session][s]
     IN  \/ /\ exPositions' = [exPositions EXCEPT ![c.session][s] =
                                  ReduceOnly(open, c.side, c.size)]
            /\ stopAllStrategies_PromiseAll(p,
                  [proc[p] EXCEPT !.closes[s].st = "closed"])
            /\ UNCHANGED nextOrderId
         \/ /\ stopAllStrategies_PromiseAll(p,
                  [proc[p] EXCEPT !.closes[s] =
                     [st |-> "failed", size |-> c.size, side |-> c.side,
                      session |-> c.session, reduceOnly |-> c.reduceOnly,
                      error |-> "createMarketOrder rejected"]])
            /\ UNCHANGED <<exPositions, nextOrderId>>
  /\ UNCHANGED <<exchange, isConnected, calls>>

(* ---- responses ------------------------------------------------------- *)

\* the route handler answers the HTTP request; the request slot is free
\* again once the closePosition calls it left behind have settled
respond(p) ==
  /\ Finished(p)
  /\ ClosesSettled(p)
  /\ proc' = [proc EXCEPT ![p] = IdleProc]
  /\ UNCHANGED <<exchange, isConnected, tradingActive, activeStrategies,
                 exPositions, nextOrderId, calls>>

\* one step of one request; names are the strategy names the callers pass
Step(names) ==
  \E p \in Procs :
    \/ \E acct \in SoloAccounts : connect(p, acct)
    \/ connect_fetchBalance(p)
    \/ \E s \in Symbols, t \in names : startMartingaleStrategy(p, s, t)
    \/ placeMartingaleOrder_fetchBalance(p)
    \/ placeMartingaleOrder_setLeverage(p)
    \/ placeMartingaleOrder_loadMarkets(p)
    \/ placeMartingaleOrder_createMarketOrder(p)
    \/ stopAllStrategies(p)
    \/ emergencyStop(p)
    \/ getActivePositions_fetchPositions(p)
    \/ \E s \in Symbols : closePosition_fetchPositions(p, s)
    \/ \E s \in Symbols : closePosition_createMarketOrder(p, s)
    \/ respond(p)

Next == Step(StrategyNames)

Spec == Init /\ [][Next]_vars

\* the engine driven with one strategy name only
NextPowerSurge == Step({"power_surge"})

\* a handler that can answer does, and the position lookup of a
\* closePosition is answered (ccxt times a request out): a closePosition
\* waiting for it goes on, at the latest once the handlers have answered
FairSpec ==
  /\ Init /\ [][NextPowerSurge]_vars
  /\ \A p \in Procs : WF_vars(respond(p))
  /\ \A p \in Procs : \A s \in Symbols :
       WF_vars(closePosition_lookup(p, s))

\* the same engine without the fairness conditions
PowerSurgeSpec == Init /\ [][NextPowerSurge]_vars

\* levels a caller of placeMartingaleOrder passes: below the ladder, on
\* it, and past its last level
Levels == {0, 2, 16}

\* the order pipeline alone: starts and direct placeMartingaleOrder calls
\* for any level, with the answer to setLeverage recorded; no stops
NextLadder ==
  \E p \in Procs :
    \/ \E acct \in SoloAccounts : connect(p, acct)
    \/ connect_fetchBalance(p)
    \/ \E s \in Symbols : startMartingaleStrategy(p, s, "power_surge")
    \/ \E s \in Symbols, l \in Levels :
         placeMartingaleOrder(p, s, "power_surge", l, "buy")
    \/ placeMartingaleOrder_fetchBalance(p)
    \/ \E rejected \in BOOLEAN : setLeverage(p, rejected)
    \/ placeMartingaleOrder_loadMarkets(p)
    \/ placeMartingaleOrder_createMarketOrder(p)
    \/ respond(p)

LadderSpec == Init /\ [][NextLadder]_vars

\* sides a caller of placeMartingaleOrder passes
Sides == {"buy", "sell"}

\* the stop side with positions of both directions: starts, first-level
\* orders to buy or to sell, stops and emergency stops, with one strategy
\* name
NextClose ==
  \E p \in Procs :
    \/ \E acct \in SoloAccounts : connect(p, acct)
    \/ connect_fetchBalance(p)
    \/ \E s \in Symbols : startMartingaleStrategy(p, s, "power_surge")
    \/ \E s \in Symbols, side \in Sides :
         placeMartingaleOrder(p, s, "power_surge", 1, side)
    \/ placeMartingaleOrder_fetchBalance(p)
    \/ placeMartingaleOrder_setLeverage(p)
    \/ placeMartingaleOrder_loadMarkets(p)
    \/ placeMartingaleOrder_createMarketOrder(p)
    \/ stopAllStrategies(p)
    \/ emergencyStop(p)
    \/ getActivePositions_fetchPositions(p)
    \/ \E s \in Symbols : closePosition_fetchPositions(p, s)
    \/ \E s \in Symbols : closePosition_createMarketOrder(p, s)
    \/ respond(p)

CloseSpec == Init /\ [][NextClose]_vars

\* connections, balance reads and starts: the operations that need a
\* gateway session
NextSession ==
  \E p \in Procs :
    \/ \E acct \in SoloAccounts : connect(p, acct)
    \/ connect_fetchBalance(p)
    \/ getAccountBalance(p)
    \/ getAccountBalance_fetchBalance(p)
    \/ \E s \in Symbols : startMartingaleStrategy(p, s, "power_surge")
    \/ placeMartingaleOrder_fetchBalance(p)
    \/ placeMartingaleOrder_setLeverage(p)
    \/ placeMartingaleOrder_loadMarkets(p)
    \/ placeMartingaleOrder_createMarketOrder(p)
    \/ respond(p)

SessionSpec == Init /\ [][NextSession]_vars

\* strategy names a caller of the engine passes: one of the catalog, one
\* the catalog does not have
CallerNames == {"power_surge", "moon_shot"}

\* starts under any name
NextCatalog ==
  \E p \in Procs :
    \/ \E acct \in SoloAccounts : connect(p, acct)
    \/ connect_fetchBalance(p)
    \/ \E s \in Symbols, t \in CallerNames : startMartingaleStrategy(p, s, t)
    \/ placeMartingaleOrder_fetchBalance(p)
    \/ placeMartingaleOrder_setLeverage(p)
    \/ placeMartingaleOrder_loadMarkets(p)
    \/ placeMartingaleOrder_createMarketOrder(p)
    \/ respond(p)

CatalogSpec == Init /\ [][NextCatalog]_vars

(* ---- GET /status ------------------------------------------------------ *)

\* the methods the ExchangeService class defines
EngineMethods ==
  {"connect", "getAccountBalance", "calculatePositionSize", "setLeverage",
   "placeMartingaleOrder", "closePosition", "getActivePositions",
   "startMartingaleStrategy", "stopAllStrategies", "emergencyStop",
   "getStrategyStatus", "isTrading", "getConnectedExchange"}

\* res.json({success: true, isTrading, balance, ..., isLiveTrading:
\* exchangeService.isLiveTrading()}): building the body calls a method the
\* engine may not have, a TypeError that the handler's outer catch answers
\* with status 500 and success: false
getStatus_json(pr) ==
  IF "isLiveTrading" \in EngineMethods
  THEN Outcome(pr, "returned",
               [success |-> TRUE, isTrading |-> pr.isTrading,
                balance |-> pr.accountBalance, positions |-> pr.positions],
               NoError)
  ELSE Outcome(pr, "thrown", NoResult,
               [kind |-> "TypeError",
                reason |-> "exchangeService.isLiveTrading is not a function"])

\* GET /status up to `await User.findById(req.user.id)`
getStatus(p) ==
  /\ Accept(p, "status")
  /\ proc' = [proc EXCEPT ![p] =
        [IdleProc EXCEPT !.op = "status", !.pc = "status_findById"]]
  /\ UNCHANGED <<exchange, isConnected, tradingActive, activeStrategies,
                 exPositions, nextOrderId>>

\* the user lookup answered: isTrading is read, balance = 0, positions = [];
\* a user with a connected exchange has the engine reconnect, up to the
\* await inside connect; any other user is answered at once
getStatus_findById(p) ==
  /\ ~Answering
  /\ proc[p].pc = "status_findById"
  /\ LET pr == [proc[p] EXCEPT !.isTrading = isTrading,
                               !.accountBalance = 0, !.positions = {}]
     IN  \/ /\ proc' = [proc EXCEPT ![p] =
                   Outcome(proc[p], "thrown", NoResult,
                           [kind |-> "Error", reason |-> "findById rejected"])]
            /\ UNCHANGED exchange
         \/ \E acct \in SoloAccounts :
              /\ exchange' = acct
              /\ proc' = [proc EXCEPT ![p] =
                    [pr EXCEPT !.pc = "status_connect", !.session = acct]]
         \/ /\ proc' = [proc EXCEPT ![p] = getStatus_json(pr)]
            /\ UNCHANGED exchange
  /\ UNCHANGED <<isConnected, tradingActive, activeStrategies, exPositions,
                 nextOrderId, calls>>

\* fetchBalance of the handler's connect answered: on success
\* getAccountBalance runs up to its fetchBalance, a rejection is caught by
\* the inner catch and the handler answers
getStatus_connect(p) ==
  /\ ~Answering
  /\ proc[p].pc = "status_connect"
  /\ \/ /\ isConnected' = TRUE
        /\ proc' = [proc EXCEPT ![p].pc = "status_fetchBalance",
                                ![p].session = exchange]
     \/ /\ isConnected' = FALSE
        /\ proc' = [proc EXCEPT ![p] = getStatus_json(proc[p])]
  /\ UNCHANGED <<exchange, tradingActive, activeStrategies, exPositions,
                 nextOrderId, calls>>

\* fetchBalance of getAccountBalance answered: the balance is kept and
\* getActivePositions runs up to its fetchPositions, unless its guard
\* throws; a rejection or that throw is caught by the inner catch
getStatus_fetchBalance(p) ==
  /\ ~Answering
  /\ proc[p].pc = "status_fetchBalance"
  /\ \/ \E b \in Balances :
          LET pr == [proc[p] EXCEPT !.accountBalance = b]
          IN  proc' = [proc EXCEPT ![p] =
                IF ~isConnected \/ exchange = "none"
                THEN getStatus_json(pr)
                ELSE [pr EXCEPT !.pc = "status_fetchPositions",
                                !.session = exchange]]
     \/ proc' = [proc EXCEPT ![p] = getStatus_json(proc[p])]
  /\ UNCHANGED <<exchange, isConnected, tradingActive, activeStrategies,
                 exPositions, nextOrderId, calls>>

\* fetchPositions of getActivePositions answered ([] on a rejection): the
\* handler answers
getStatus_fetchPositions(p) ==
  /\ ~Answering
  /\ proc[p].pc = "status_fetchPositions"
  /\ \E fetched \in BOOLEAN :
       proc' = [proc EXCEPT ![p] =
         getStatus_json([proc[p] EXCEPT !.positions =
                           getActivePositions(proc[p].session, fetched)])]
  /\ UNCHANGED <<exchange, isConnected, tradingActive, activeStrategies,
                 exPositions, nextOrderId, calls>>

\* status requests next to connects and starts
NextStatus ==
  \E p \in Procs :
    \/ \E acct \in SoloAccounts : connect(p, acct)
    \/ connect_fetchBalance(p)
    \/ \E s \in Symbols : startMartingaleStrategy(p, s, "power_surge")
    \/ placeMartingaleOrder_fetchBalance(p)
    \/ placeMartingaleOrder_setLeverage(p)
    \/ placeMartingaleOrder_loadMarkets(p)
    \/ placeMartingaleOrder_createMarketOrder(p)
    \/ getStatus(p)
    \/ getStatus_findById(p)
    \/ getStatus_connect(p)
    \/ getStatus_fetchBalance(p)
    \/ getStatus_fetchPositions(p)
    \/ respond(p)

StatusSpec == Init /\ [][NextStatus]_vars

(* ---- POST /start, one user per request slot --------------------------- *)

\* req.user of the request in slot p: the two slots are two users, each
\* with the API key of its own exchange account
User(p) == IF p = 1 THEN "acctA" ELSE "acctB"

\* POST /start up to the await inside exchangeService.connect(user's keys):
\* the engine's session is replaced by one made with this user's keys
postStart(p, symbol, strategy) ==
  /\ ~Answering
  /\ proc[p].pc = "idle"
  /\ calls < MaxStarts
  /\ calls' = calls + 1
  /\ exchange' = User(p)
  /\ proc' = [proc EXCEPT ![p] =
        [IdleProc EXCEPT !.pc = "route_connect", !.op = "start",
           !.symbol = symbol, !.strategy = strategy, !.level = 1,
           !.side = "buy", !.session = User(p)]]
  /\ UNCHANGED <<isConnected, tradingActive, activeStrategies, exPositions,
                 nextOrderId>>

\* fetchBalance of the handler's connect answered: a rejection is the
\* handler's 500; otherwise isConnected is set and the handler goes on into
\* startMartingaleStrategy -> placeMartingaleOrder -> getAccountBalance, up
\* to `await this.exchange.fetchBalance()` on the session the engine holds
\* by now
postStart_connect(p) ==
  /\ ~Answering
  /\ proc[p].pc = "route_connect"
  /\ \/ /\ isConnected' = TRUE
        /\ proc' = [proc EXCEPT ![p].pc = "start_fetchBalance",
                      ![p].activeAtCall =
                         getStrategyStatus(proc[p].symbol).isActive,
                      ![p].session = exchange]
     \/ /\ isConnected' = FALSE
        /\ proc' = [proc EXCEPT ![p] =
              Outcome(proc[p], "thrown", NoResult,
                      [kind |-> "ConnectError",
                       reason |-> "fetchBalance rejected"])]
  /\ UNCHANGED <<exchange, tradingActive, activeStrategies, exPositions,
                 nextOrderId, calls>>

\* two users starting strategies through the one engine
NextTenant ==
  \E p \in Procs :
    \/ \E s \in Symbols : postStart(p, s, "power_surge")
    \/ postStart_connect(p)
    \/ placeMartingaleOrder_fetchBalance(p)
    \/ placeMartingaleOrder_setLeverage(p)
    \/ placeMartingaleOrder_loadMarkets(p)
    \/ placeMartingaleOrder_createMarketOrder(p)
    \/ respond(p)

TenantSpec == Init /\ [][NextTenant]_vars

(* ---- the position sizer on its own ------------------------------------ *)

\* both slots hold one and the same input (balance, level, strategy) for
\* the sizer; nothing else has happened
InitSizer ==
  /\ exchange = "none"
  /\ isConnected = FALSE
  /\ tradingActive = FALSE
  /\ activeStrategies = [s \in {} |-> NoState]
  /\ \E b \in 0 .. MaxBalance, t \in StrategyNames :
       \E l \in 1 .. STRATEGIES[t].maxLevels :
         proc = [p \in Procs |->
                   [IdleProc EXCEPT !.pc = "sizing",
                      !.op = "calculatePositionSize",
                      !.accountBalance = b, !.level = l, !.strategy = t]]
  /\ exPositions = [a \in Accounts |-> [s \in Symbols |-> 0]]
  /\ nextOrderId = 1
  /\ calls = 0

\* calculatePositionSize applied to the slot's input
calculatePositionSize_apply(p) ==
  /\ proc[p].pc = "sizing"
  /\ proc' = [proc EXCEPT ![p].pc = "sized",
                ![p].positionSize =
                   calculatePositionSize(proc[p].accountBalance,
                                         proc[p].level, proc[p].strategy)]
  /\ UNCHANGED <<exchange, isConnected, tradingActive, activeStrategies,
                 exPositions, nextOrderId, calls>>

\* the third variant's calculatePositionSize applied to the slot's input
calculatePositionSize_v3_apply(p) ==
  /\ proc[p].pc = "sizing"
  /\ proc' = [proc EXCEPT ![p].pc = "sized_v3",
                ![p].positionSize =
                   calculatePositionSize_v3(proc[p].accountBalance,
                                            proc[p].level, proc[p].strategy)]
  /\ UNCHANGED <<exchange, isConnected, tradingActive, activeStrategies,
                 exPositions, nextOrderId, calls>>

NextSizer ==
  \E p \in Procs :
    \/ calculatePositionSize_apply(p)
    \/ calculatePositionSize_v3_apply(p)

SizerSpec == InitSizer /\ [][NextSizer]_vars

(* ---- claims ----------------------------------------------------------- *)

\* the step in which the start of request p ends, by return or by throw
StartEnds(p) ==
  /\ proc[p].pc \in StartPcs \cup {"idle"}
  /\ proc'[p].op = "start"
  /\ proc'[p].pc \in {"returned", "thrown"}

\* C1: a start called for a symbol that already has an active state fails
\* with AlreadyActive and leaves that symbol's registry entry as it was.
\* Stated for the starts the gateway lets through: a start that ends in a
\* gateway or size failure ("Order Failed: ...") is left aside.
C1_StartOnActiveRejected ==
  [][\A p \in Procs :
       (/\ StartEnds(p)
        /\ proc'[p].activeAtCall
        /\ proc'[p].error.kind # "OrderFailed")
       => /\ proc'[p].pc = "thrown"
          /\ proc'[p].error.kind = "AlreadyActive"
          /\ activeStrategies' = activeStrategies]_vars

\* C2: of two start calls on one symbol that overlap in time exactly one
\* succeeds, the other is rejected with AlreadyActive, and the registry
\* holds one state for the symbol, with the order id of the call that
\* succeeded: a start that ends after an overlapping start for its symbol
\* has returned is thrown with AlreadyActive and leaves the registry as it
\* was.  Starts ended by a gateway or size failure are left aside.
C2_ConcurrentStartsExclusive ==
  [][\A p \in Procs :
       (/\ StartEnds(p)
        /\ proc[p].rivalReturned
        /\ ~proc[p].activeAtCall
        /\ proc'[p].error.kind # "OrderFailed")
       => /\ proc'[p].pc = "thrown"
          /\ proc'[p].error.kind = "AlreadyActive"
          /\ activeStrategies' = activeStrategies]_vars

\* the step in which request p submits its level-1 market buy
BuySubmitted(p) ==
  /\ proc[p].pc = "start_loadMarkets"
  /\ proc'[p].pc = "start_createMarketOrder"

\* C3: no entry order is placed twice: a level-1 buy for a symbol is
\* submitted only while the symbol has no state in the registry and no
\* other start has a buy for it in flight.
C3_NoDoubleEntryOrder ==
  [][\A p \in Procs :
       BuySubmitted(p)
       => /\ proc[p].symbol \notin DOMAIN activeStrategies
          /\ \A q \in Procs \ {p} :
               ~(/\ proc[q].pc = "start_createMarketOrder"
                 /\ proc[q].symbol = proc[p].symbol)]_vars

\* C4: a state leaves the registry only when its symbol's position is
\* closed or absent on the exchange, or a close order for it succeeded in
\* the stop that removes it.
C4_RemovedOnlyWhenClosed ==
  [][\A s \in DOMAIN activeStrategies :
       s \notin DOMAIN activeStrategies'
       => \/ \A a \in Accounts : exPositions'[a][s] = 0
          \/ \E p \in Procs : /\ proc[p].pc = "stop_closing"
                              /\ proc'[p].pc = "returned"
                              /\ proc'[p].closes[s].st = "closed"]_vars

\* C5: a stop over tracked symbols A and B whose close of A succeeded and
\* whose close of B failed returns closedCount = 1 and failures = {B}
\* instead of raising, and the registry has lost A and kept B.
C5_StopAllAggregatesFailures ==
  \A p \in Procs : \A A, B \in Symbols :
    (/\ proc[p].op \in StopOps
     /\ Finished(p) /\ ClosesSettled(p)
     /\ proc[p].closes[A].st = "closed"
     /\ proc[p].closes[B].st = "failed")
    => /\ proc[p].pc = "returned"
       /\ "closedCount" \in DOMAIN proc[p].result
       /\ proc[p].result.closedCount = 1
       /\ proc[p].result.failures = {B}
       /\ A \notin DOMAIN activeStrategies
       /\ B \in DOMAIN activeStrategies

\* C7: a stop has returned or thrown only when every closePosition call it
\* fanned out has settled.
C7_StopReportsAfterAllSettled ==
  \A p \in Procs :
    (proc[p].op \in StopOps /\ Finished(p)) => ClosesSettled(p)

\* C6: a close failure for one symbol does not keep the others from being
\* closed: for every position the positions fetch returned, the lookup of
\* its closePosition is answered and, when it finds a position, followed
\* by the reduce-only order, whatever becomes of the other closes.
C6_EveryCloseAttempted ==
  \A p \in Procs : \A s \in Symbols :
    (s \in proc[p].positions)
      ~> (proc[p].closes[s].st \in {"order", "closed", "noPosition", "failed"})

\* a stop has thrown on the failed close of one symbol and the close of
\* another symbol has gone through all the same
C6_Witness ==
  \E p \in Procs : \E A, B \in Symbols :
    /\ proc[p].op \in StopOps /\ proc[p].pc = "thrown"
    /\ proc[p].closes[A].st = "failed"
    /\ proc[p].closes[B].st = "closed"

\* C8: a start that fails at any step creates no state: no step of a start
\* other than its successful return changes the registry or the
\* trading-active flag, the failure is an "Order Failed" error, and a
\* rejected order carries the gateway's reason.
C8_FailedStartLeavesNoState ==
  [][\A p \in Procs :
       /\ (/\ proc'[p].op = "start"
           /\ proc'[p].pc # proc[p].pc
           /\ proc'[p].pc # "returned")
          => /\ activeStrategies' = activeStrategies
             /\ tradingActive' = tradingActive
       /\ (StartEnds(p) /\ proc'[p].pc = "thrown")
          => /\ proc'[p].error.kind = "OrderFailed"
             /\ proc'[p].result = NoResult
             /\ (proc[p].pc = "start_createMarketOrder"
                   => proc'[p].error.reason = "createMarketOrder rejected")]_vars

\* a start whose order the exchange rejected, with the flag still down
C8_Witness ==
  \E p \in Procs :
    /\ proc[p].op = "start" /\ proc[p].pc = "thrown"
    /\ proc[p].error.reason = "createMarketOrder rejected"
    /\ ~tradingActive
    /\ DOMAIN activeStrategies = {}

\* C9: a start whose level-1 size is below the symbol's minimum order size
\* fails with the too-small error, submits no market order and creates no
\* state: the buy is submitted only when the size is not below the minimum.
C9_TooSmallRejected ==
  [][\A p \in Procs :
       (proc[p].pc = "start_loadMarkets" /\ proc'[p].pc # "start_loadMarkets")
       => /\ (proc'[p].pc = "start_createMarketOrder")
             => ~(/\ proc'[p].minOrderSize \in MinSizes
                  /\ proc[p].positionSize < proc'[p].minOrderSize)
          /\ (proc'[p].error.reason = "Position size too small")
             => /\ proc'[p].pc = "thrown"
                /\ proc'[p].error.positionSize = proc[p].positionSize
                /\ proc'[p].error.positionSize < proc'[p].error.min
                /\ proc'[p].sent = 0
                /\ nextOrderId' = nextOrderId
                /\ exPositions' = exPositions
                /\ activeStrategies' = activeStrategies
                /\ tradingActive' = tradingActive]_vars

\* a start rejected as too small with a positive size
C9_Witness ==
  \E p \in Procs :
    /\ proc[p].op = "start" /\ proc[p].pc = "thrown"
    /\ proc[p].error.reason = "Position size too small"
    /\ proc[p].error.positionSize > 0
    /\ proc[p].sent = 0

\* C10: when a start returns, the registry holds for its symbol the state
\* (strategy name, level 1, active, id of the order the exchange returned)
\* and the call returns that id with the symbol, the computed size, level 1
\* and the strategy name.
C10_SuccessfulStartRegisters ==
  [][\A p \in Procs :
       (StartEnds(p) /\ proc'[p].pc = "returned")
       => /\ proc[p].symbol \in DOMAIN activeStrategies'
          /\ activeStrategies'[proc[p].symbol] =
               [strategy |-> proc[p].strategy, currentLevel |-> 1,
                orderId |-> nextOrderId, isActive |-> TRUE]
          /\ proc'[p].result =
               [success |-> TRUE, orderId |-> nextOrderId,
                symbol |-> proc[p].symbol, side |-> "buy",
                amount |-> calculatePositionSize(proc[p].accountBalance, 1,
                                                 proc[p].strategy),
                level |-> 1, strategy |-> proc[p].strategy]]_vars

\* a start has returned and its state is in the registry
C10_Witness ==
  \E p \in Procs :
    /\ proc[p].op = "start" /\ proc[p].pc = "returned"
    /\ proc[p].result.amount > 0
    /\ getStrategyStatus(proc[p].symbol).orderId = proc[p].result.orderId

\* the failures of the balance fetch and of the market data
DataFailures ==
  {"Failed to fetch account balance", "loadMarkets rejected",
   "market undefined"}

\* C11: a balance-fetch failure or a market-data failure aborts the start
\* before any order submission: the step in which either call fails ends
\* the request with no createMarketOrder invoked for it, and leaves the
\* registry, the trading flag and the exchange as they were.
C11_DataFailureAbortsBeforeOrder ==
  [][\A p \in Procs :
       (/\ proc[p].pc \in {"start_fetchBalance", "start_loadMarkets"}
        /\ proc'[p].pc # proc[p].pc
        /\ proc'[p].error.reason \in DataFailures)
       => /\ proc'[p].pc = "thrown"
          /\ proc'[p].error.kind = "OrderFailed"
          /\ proc'[p].sent = 0
          /\ activeStrategies' = activeStrategies
          /\ tradingActive' = tradingActive
          /\ nextOrderId' = nextOrderId
          /\ exPositions' = exPositions]_vars

\* a start has failed on its market data while the registry holds a state
C11_Witness ==
  \E p \in Procs :
    /\ proc[p].op = "start" /\ proc[p].pc = "thrown"
    /\ proc[p].error.reason = "loadMarkets rejected"
    /\ proc[p].sent = 0
    /\ DOMAIN activeStrategies # {}

\* C12: a failure of setLeverage is non-fatal: whatever the exchange
\* answers to setLeverage, the request goes on to the market data with its
\* size and the engine untouched, and a start whose setLeverage was
\* rejected returns, with its one order and its state in the registry, as
\* any other start does.
C12_LeverageFailureTolerated ==
  [][\A p \in Procs :
       /\ (proc[p].pc = "start_setLeverage" /\ proc'[p].pc # proc[p].pc)
          => /\ proc'[p].pc = "start_loadMarkets"
             /\ proc'[p].positionSize = proc[p].positionSize
             /\ proc'[p].sent = 0
             /\ activeStrategies' = activeStrategies
             /\ tradingActive' = tradingActive
             /\ exPositions' = exPositions
       /\ (/\ StartEnds(p)
           /\ proc[p].leverageFailed
           /\ proc[p].pc = "start_createMarketOrder"
           /\ proc'[p].error.reason # "createMarketOrder rejected")
          => /\ proc'[p].pc = "returned"
             /\ proc'[p].sent = 1
             /\ proc'[p].result.success
             /\ proc'[p].result.orderId = nextOrderId
             /\ proc'[p].result.amount = proc[p].positionSize
             /\ activeStrategies'[proc[p].symbol] =
                  NewStrategyState(proc[p].strategy, nextOrderId)
             /\ tradingActive'
             /\ exPositions'[proc[p].session][proc[p].symbol] =
                  exPositions[proc[p].session][proc[p].symbol]
                    + proc[p].positionSize]_vars

\* a start whose setLeverage the exchange rejected has returned
C12_Witness ==
  \E p \in Procs :
    /\ proc[p].op = "start" /\ proc[p].pc = "returned"
    /\ proc[p].leverageFailed
    /\ proc[p].result.amount > 0
    /\ getStrategyStatus(proc[p].symbol).orderId = proc[p].result.orderId

\* C13: with a fetched balance of zero or less the engine rejects the
\* start itself and submits no market order, whatever minimum order size
\* the exchange reports for the symbol, a missing one included.
C13_NonPositiveBalanceRejected ==
  [][\A p \in Procs :
       (/\ proc[p].pc = "start_loadMarkets"
        /\ proc'[p].pc # proc[p].pc
        /\ proc[p].accountBalance <= 0)
       => /\ proc'[p].pc = "thrown"
          /\ proc'[p].sent = 0]_vars

\* the levels of a strategy's ladder
Ladder(strategy) == 1 .. STRATEGIES[strategy].maxLevels

\* the step in which request p is called
Called(p) == proc[p].pc = "idle" /\ proc'[p].op \in {"start", "order"}

\* C14: sizing or placing an order with a level outside [1, maxLevels]
\* fails with InvalidLevel before any exchange call: on a connected engine
\* the call throws InvalidLevel at once, no size is computed for such a
\* level and no market order is submitted for it.
C14_InvalidLevelRejected ==
  [][\A p \in Procs :
       /\ (/\ Called(p)
           /\ proc'[p].level \notin Ladder(proc'[p].strategy)
           /\ isConnected /\ exchange # "none")
          => /\ proc'[p].pc = "thrown"
             /\ proc'[p].error.kind = "InvalidLevel"
       /\ (/\ proc[p].pc = "start_fetchBalance"
           /\ proc'[p].pc = "start_setLeverage")
          => proc[p].level \in Ladder(proc[p].strategy)
       /\ BuySubmitted(p) => proc[p].level \in Ladder(proc[p].strategy)]_vars

\* C15: every registry entry's currentLevel lies in [1, maxLevels] of its
\* strategy, and past the last level nothing more is ordered for a symbol:
\* no order is sized from beyond the multiplier table, and a symbol asked
\* for the level after its last is Exhausted.
C15_LevelWithinLadder ==
  [][/\ \A s \in DOMAIN activeStrategies' :
          activeStrategies'[s].currentLevel
            \in Ladder(activeStrategies'[s].strategy)
     /\ \A p \in Procs :
          /\ (proc'[p].pc \in StartPcs /\ proc'[p].positionSize # Undefined)
             => proc'[p].positionSize # NaN
          /\ (/\ Called(p)
              /\ proc'[p].level > STRATEGIES[proc'[p].strategy].maxLevels)
             => /\ proc'[p].pc = "thrown"
                /\ proc'[p].error.kind = "Exhausted"]_vars

\* C16: a failed escalation never advances the ladder: no step of an order
\* for a level above 1, short of its successful return, changes the
\* registry, and the state of a symbol changes only in the step in which an
\* order for that symbol returns.
C16_FailedEscalationKeepsState ==
  [][/\ \A p \in Procs :
          (/\ proc'[p].op = "order"
           /\ proc'[p].level > 1
           /\ proc'[p].pc # proc[p].pc
           /\ proc'[p].pc # "returned")
          => /\ activeStrategies' = activeStrategies
             /\ tradingActive' = tradingActive
     /\ \A s \in DOMAIN activeStrategies \cap DOMAIN activeStrategies' :
          activeStrategies'[s] # activeStrategies[s]
          => \E p \in Procs : /\ proc[p].symbol = s
                              /\ proc[p].pc = "start_createMarketOrder"
                              /\ proc'[p].pc = "returned"]_vars

\* an order for level 2 of an active symbol was rejected by the exchange
\* and the symbol is still at level 1
C16_Witness ==
  \E p \in Procs :
    /\ proc[p].op = "order" /\ proc[p].pc = "thrown"
    /\ proc[p].level = 2
    /\ proc[p].activeAtCall
    /\ proc[p].error.reason = "createMarketOrder rejected"
    /\ getStrategyStatus(proc[p].symbol).currentLevel = 1

\* the step in which the fetchPositions([symbol]) of request p's
\* closePosition for s is answered, the fetch itself not being rejected
Looked(p, s) ==
  /\ proc[p].closes[s].st = "lookup"
  /\ proc'[p].closes[s].st # "lookup"
  /\ ~(/\ proc'[p].closes[s].st = "failed"
       /\ proc'[p].closes[s].error = "fetchPositions rejected")

\* what the exchange reports for the closePosition of p on s
Reported(p, s) == exPositions[proc[p].closes[s].session][s]

\* C17: closePosition on a symbol for which the exchange reports no open
\* position is a success: it submits no order, changes nothing at the
\* exchange and raises no error, so the stop it belongs to throws only for
\* another symbol's failure.
C17_NoPositionIsSuccess ==
  [][\A p \in Procs : \A s \in Symbols :
       (Looked(p, s) /\ Reported(p, s) = 0)
       => /\ proc'[p].closes[s].st = "noPosition"
          /\ proc'[p].sent = proc[p].sent
          /\ exPositions' = exPositions
          /\ nextOrderId' = nextOrderId
          /\ proc'[p].pc = "thrown"
             => \E t \in Symbols \ {s} : proc'[p].closes[t].st = "failed"
     ]_vars

\* a stop returned successfully although one of its closePosition calls
\* found no position left
C17_Witness ==
  \E p \in Procs : \E s \in Symbols :
    /\ proc[p].pc = "returned"
    /\ proc[p].op = "stopAllStrategies"
    /\ s \in proc[p].positions
    /\ proc[p].closes[s].st = "noPosition"
    /\ proc[p].sent = 0

\* C18: closePosition on a symbol with an open position submits exactly one
\* market order: reduce-only, for the position's full size, on the opposite
\* side (sell for a long position, buy for a short one); the answer to that
\* order submits nothing further.
C18_OneReduceOnlyOppositeOrder ==
  [][\A p \in Procs : \A s \in Symbols :
       /\ (Looked(p, s) /\ Reported(p, s) # 0)
          => /\ proc'[p].closes[s].st = "order"
             /\ proc'[p].closes[s].reduceOnly
             /\ proc'[p].closes[s].size =
                  (IF Reported(p, s) < 0 THEN 0 - Reported(p, s)
                   ELSE Reported(p, s))
             /\ proc'[p].closes[s].side =
                  (IF Reported(p, s) > 0 THEN "sell" ELSE "buy")
             /\ proc'[p].sent = proc[p].sent + 1
       /\ (proc[p].closes[s].st = "order" /\ proc'[p].closes[s].st # "order")
          => /\ proc'[p].sent = proc[p].sent
             /\ proc'[p].closes[s].st \in {"closed", "failed"}
     ]_vars

\* a short position was closed by one reduce-only order to buy its full
\* size
C18_Witness ==
  \E p \in Procs : \E s \in Symbols :
    /\ proc[p].closes[s].st = "closed"
    /\ proc[p].closes[s].side = "buy"
    /\ proc[p].closes[s].reduceOnly
    /\ proc[p].closes[s].size > 0
    /\ proc[p].sent = 1
    /\ exPositions[proc[p].closes[s].session][s] = 0

\* no registry entry and no open position on the account
NothingToStop(account) ==
  /\ DOMAIN activeStrategies = {}
  /\ \A s \in Symbols : exPositions[account][s] = 0

\* C19: stopping when there is nothing to stop is a no-op success: with an
\* empty registry and no open position on a connected gateway,
\* stopAllStrategies goes on to ask for the positions and, answered,
\* returns success without error, submits no order and leaves the
\* registry, the flag and the exchange as they were, so that repeating it
\* gives the same state.
C19_NothingToStopIsNoOp ==
  [][\A p \in Procs :
       /\ (/\ proc[p].pc = "idle"
           /\ proc'[p].op = "stopAllStrategies"
           /\ isConnected /\ exchange # "none"
           /\ NothingToStop(exchange))
          => /\ proc'[p].pc = "stop_fetchPositions"
             /\ UNCHANGED <<exchange, isConnected, tradingActive,
                            activeStrategies, exPositions>>
       /\ (/\ proc[p].op = "stopAllStrategies"
           /\ proc[p].pc = "stop_fetchPositions"
           /\ proc'[p].pc # proc[p].pc
           /\ NothingToStop(proc[p].session))
          => /\ proc'[p].pc = "returned"
             /\ proc'[p].result = [success |-> TRUE]
             /\ proc'[p].error = NoError
             /\ proc'[p].sent = 0
             /\ UNCHANGED <<exchange, isConnected, tradingActive,
                            activeStrategies, exPositions>>]_vars

\* a stopAllStrategies returned success on an engine that never started
\* or ordered anything
C19_Witness ==
  /\ calls = 0
  /\ DOMAIN activeStrategies = {}
  /\ ~tradingActive
  /\ \E p \in Procs :
       /\ proc[p].op = "stopAllStrategies"
       /\ proc[p].pc = "returned"
       /\ proc[p].positions = {}
       /\ proc[p].sent = 0

\* what one step of a stop request p does, whichever of the two
\* operations it is: the call changes nothing in the engine and asks the
\* connected gateway for the positions; the answer fans out one
\* closePosition per open position; the request returns success when every
\* closePosition succeeded, clearing the registry and the flag, and throws
\* the first failure with the registry and the flag left alone
StopStep(p) ==
  LET r == proc[p]
      n == proc'[p]
      kept == UNCHANGED <<activeStrategies, tradingActive>>
  IN  /\ r.pc = "idle"
         => /\ UNCHANGED <<exchange, isConnected, exPositions>>
            /\ kept
            /\ IF isConnected /\ exchange # "none"
               THEN n.pc = "stop_fetchPositions" /\ n.session = exchange
               ELSE n.pc = "thrown"
                    /\ n.error.reason = "Exchange not connected"
      /\ (r.pc = "stop_fetchPositions" /\ n.pc # r.pc)
         => /\ n.positions \in {getActivePositions(r.session, TRUE), {}}
            /\ n.positions = {} => n.pc = "returned"
            /\ n.positions # {}
               => /\ n.pc = "stop_closing"
                  /\ \A s \in Symbols :
                       n.closes[s].st
                         = IF s \in n.positions THEN "lookup" ELSE "none"
      /\ (r.pc \in {"stop_fetchPositions", "stop_closing"} /\ n # r)
         => /\ n.pc = "returned"
               <=> \A s \in n.positions :
                     n.closes[s].st \in {"closed", "noPosition"}
            /\ n.pc = "thrown"
               <=> /\ n.positions # {}
                   /\ \E s \in n.positions : n.closes[s].st = "failed"
            /\ n.pc = "returned"
               => /\ n.result.success
                  /\ DOMAIN activeStrategies' = {}
                  /\ ~tradingActive'
            /\ n.pc # "returned" => kept

\* C20: emergencyStop is stopAllStrategies under another label: every
\* step of an emergencyStop request and every step of a stopAllStrategies
\* request does the same thing to the engine, submits the same close
\* orders and ends in success or failure in the same cases; only the
\* returned message differs.
C20_EmergencyStopIsStopAll ==
  [][\A p \in Procs :
       /\ (proc'[p].op = "emergencyStop" /\ proc'[p] # proc[p])
          => /\ StopStep(p)
             /\ proc'[p].pc = "returned"
                => proc'[p].result
                     = [success |-> TRUE,
                        message |-> "Emergency stop completed"]
       /\ (proc'[p].op = "stopAllStrategies" /\ proc'[p] # proc[p])
          => /\ StopStep(p)
             /\ proc'[p].pc = "returned"
                => proc'[p].result = [success |-> TRUE]]_vars

\* an emergencyStop closed a position and returned, the registry and the
\* flag cleared
C20_Witness ==
  \E p \in Procs : \E s \in Symbols :
    /\ proc[p].op = "emergencyStop"
    /\ proc[p].pc = "returned"
    /\ proc[p].closes[s].st = "closed"
    /\ proc[p].sent > 0
    /\ DOMAIN activeStrategies = {}
    /\ ~tradingActive

\* C22: with no active gateway session (never connected, or the connect
\* that settled last failed) getAccountBalance and start fail at the call
\* with the not-connected error: no exchange call is issued, no order is
\* submitted, and the registry, the flag and the session are unchanged.
C22_NotConnectedFailsAtCall ==
  [][\A p \in Procs :
       (/\ proc[p].pc = "idle"
        /\ proc'[p].op \in {"getAccountBalance", "start"}
        /\ ~isConnected \/ exchange = "none")
       => /\ proc'[p].pc = "thrown"
          /\ proc'[p].error.reason
               = (IF proc'[p].op = "start" THEN "Not connected to exchange"
                  ELSE "Exchange not connected")
          /\ proc'[p].session = "none"
          /\ proc'[p].sent = 0
          /\ UNCHANGED <<exchange, isConnected, tradingActive,
                         activeStrategies, exPositions, nextOrderId>>]_vars

\* after a failed connect, a getAccountBalance was refused while a
\* strategy started earlier is still registered
C22_Witness ==
  \E p \in Procs :
    /\ proc[p].op = "getAccountBalance"
    /\ proc[p].pc = "thrown"
    /\ proc[p].error = NotConnected
    /\ exchange # "none" /\ ~isConnected
    /\ DOMAIN activeStrategies # {}

\* C23: gateway sessions are never shared between accounts: whatever the
\* interleaving of the two users' requests, every gateway call awaited for a
\* request (the connect's and the start's balance fetch, the leverage set,
\* the market data, the order) was issued on the session made with the keys
\* of the request's own user.
C23_SessionsNotShared ==
  \A p \in Procs :
    proc[p].pc \in StartPcs \cup {"route_connect"}
    => proc[p].session = User(p)

\* C24: for every strategy of the catalog, every level in 1..maxLevels and
\* every balance the sizer returns balance * capitalBaseFraction *
\* multipliers[level-1] with the literal conservative and aggressive tables
\* (the fraction 0.001 in thousandths, the tables in hundredths), and it
\* changes neither its inputs nor anything of the engine.
C24_SizerFormula ==
  [][LET conservative ==
           <<25, 27, 36, 47, 63, 83, 108, 143, 188, 247, 325, 430, 568, 751,
             993>>
         aggressive ==
           <<40, 54, 72, 94, 126, 166, 216, 286, 376, 494, 650, 860, 1136,
             1502, 1986>>
         multipliers(t) == IF t = "steady_climb" THEN conservative
                           ELSE aggressive
     IN  \A p \in Procs :
           (proc[p].pc = "sizing" /\ proc'[p].pc = "sized")
           => /\ proc'[p].positionSize
                   = proc[p].accountBalance * 1
                       * multipliers(proc[p].strategy)[proc[p].level]
              /\ proc'[p].accountBalance = proc[p].accountBalance
              /\ proc'[p].level = proc[p].level
              /\ proc'[p].strategy = proc[p].strategy
              /\ UNCHANGED <<exchange, isConnected, tradingActive,
                             activeStrategies, exPositions,
                             nextOrderId>>]_vars

\* the sizer was applied to the largest balance at the last level of the
\* aggressive ladder
C24_Witness ==
  \E p \in Procs :
    /\ proc[p].pc = "sized"
    /\ proc[p].strategy = "power_surge"
    /\ proc[p].level = 15
    /\ proc[p].accountBalance = MaxBalance
    /\ proc[p].positionSize = MaxBalance * 1986

\* C29: the two sizing variants agree: on the same strategy, level in
\* 1..15 and balance, the first variant (capitalBase 0.001 as a raw
\* fraction) and the third (capitalBase 0.1 divided by 100) give the same
\* order size.
C29_SizerVariantsAgree ==
  \A p \in Procs : \A q \in Procs :
    (/\ proc[p].pc = "sized"
     /\ proc[q].pc = "sized_v3"
     /\ proc[p].accountBalance = proc[q].accountBalance
     /\ proc[p].level = proc[q].level
     /\ proc[p].strategy = proc[q].strategy)
    => proc[p].positionSize = proc[q].positionSize

\* both variants have sized the same input, to a size above zero
C29_Witness ==
  \E p \in Procs : \E q \in Procs :
    /\ proc[p].pc = "sized"
    /\ proc[q].pc = "sized_v3"
    /\ proc[p].level = 15
    /\ proc[p].positionSize > 0
    /\ proc[q].positionSize > 0

\* a step of a start of request p under a name the catalog does not have
UnknownStep(p) ==
  /\ proc'[p].op = "start"
  /\ proc'[p].strategy \notin StrategyNames
  /\ proc'[p].pc # proc[p].pc

C26_GatewayCallOrder ==
  [][\A p \in Procs :
       (proc'[p].op \in {"start", "order"} /\ proc'[p].pc # proc[p].pc)
       => /\ proc'[p].pc = "start_fetchBalance" => proc[p].pc = "idle"
          /\ proc'[p].pc = "start_setLeverage"
             => proc[p].pc = "start_fetchBalance"
          /\ proc'[p].pc = "start_loadMarkets"
             => proc[p].pc = "start_setLeverage"
          /\ proc'[p].pc = "start_createMarketOrder"
             => /\ proc[p].pc = "start_loadMarkets"
                /\ proc'[p].sent = proc[p].sent + 1
                /\ \/ proc'[p].minOrderSize = Undefined
                   \/ proc[p].positionSize = NaN
                   \/ proc[p].positionSize >= proc'[p].minOrderSize
          /\ proc'[p].pc # "start_createMarketOrder"
             => proc'[p].sent = proc[p].sent
          /\ (/\ proc'[p].pc = "thrown"
              /\ proc'[p].error.reason = "Position size too small")
             => proc[p].pc = "start_loadMarkets"]_vars

\* a start was rejected as too small after the exchange had answered, with
\* a rejection, its attempt to set the leverage
C26_Witness ==
  \E p \in Procs :
    /\ proc[p].op = "start" /\ proc[p].pc = "thrown"
    /\ proc[p].error.reason = "Position size too small"
    /\ proc[p].leverageFailed
    /\ proc[p].sent = 0

\* C27: in every state between asynchronous steps, after any interleaving
\* of connect, start, stopAllStrategies and emergencyStop, the
\* trading-active flag is set if and only if the registry is non-empty.
C27_FlagIffRegistryNonEmpty ==
  tradingActive <=> DOMAIN activeStrategies # {}

\* a stop is under way: a position is closed already, another close is
\* still awaited, and the registry and the flag are both still set
C27_Witness ==
  /\ tradingActive
  /\ DOMAIN activeStrategies # {}
  /\ \E p \in Procs : \E s \in Symbols : \E t \in Symbols :
       /\ proc[p].op \in StopOps
       /\ proc[p].pc = "stop_closing"
       /\ proc[p].closes[s].st = "closed"
       /\ proc[p].closes[t].st \in {"lookup", "order"}

\* C28: stopAllStrategies and emergencyStop called while isConnected is
\* false throw 'Exchange not connected' at the call: no position is asked
\* for, no close order is submitted, and the registry and the flag are left
\* as they were.
C28_StopWhileDisconnected ==
  [][\A p \in Procs :
       (/\ proc[p].pc = "idle"
        /\ proc'[p].op \in StopOps
        /\ ~isConnected)
       => /\ proc'[p].pc = "thrown"
          /\ proc'[p].error
               = [kind |-> "Error", reason |-> "Exchange not connected"]
          /\ proc'[p].sent = 0
          /\ proc'[p].positions = {}
          /\ \A s \in Symbols : proc'[p].closes[s].st = "none"
          /\ UNCHANGED <<exchange, isConnected, tradingActive,
                         activeStrategies, exPositions>>]_vars

\* after a connect failed, a stop was refused and the strategy started
\* before is still registered, its position still open
C28_Witness ==
  \E p \in Procs : \E s \in Symbols :
    /\ proc[p].op = "stopAllStrategies"
    /\ proc[p].pc = "thrown"
    /\ proc[p].error.reason = "Exchange not connected"
    /\ exchange # "none" /\ ~isConnected
    /\ getStrategyStatus(s).isActive
    /\ tradingActive
    /\ exPositions[exchange][s] > 0

\* C30: whenever the user lookup succeeds, GET /status answers with
\* success = true and the isTrading value it read from the engine; a failed
\* reconnect, balance fetch or position fetch is swallowed, never answered
\* as an error.
C30_StatusAlwaysAnswersSuccess ==
  [][\A p \in Procs :
       (/\ proc[p].op = "status"
        /\ proc[p].pc \notin {"returned", "thrown"}
        /\ proc'[p].pc \in {"returned", "thrown"}
        /\ proc'[p].error.reason # "findById rejected")
       => /\ proc'[p].pc = "returned"
          /\ proc'[p].result.success
          /\ proc'[p].result.isTrading
               = (IF proc[p].pc = "status_findById" THEN isTrading
                  ELSE proc[p].isTrading)]_vars

====
